---- MODULE Spec2Model ----
(***************************************************************************)
(* Model of the CONNECT dispatcher (https.go, handleHttps and its helpers) *)
(* and of the certificate signer (signer.go, signHost) of goproxy.         *)
(*                                                                         *)
(* A host string is a sequence of tokens in which ":" is a token of its    *)
(* own, so <<"a.b", ":", "443">> is the string "a.b:443".                  *)
(* clientOut[c] is the sequence of writes issued on the hijacked client    *)
(* connection of CONNECT c, originOut[c] the writes issued on its origin   *)
(* connection.                                                             *)
(***************************************************************************)
EXTENDS Integers, Sequences, FiniteSets, TLC

\* ------------------------------------------------------------------ bounds
NConn == 2
MaxHandlers == 2
MaxRelay == 1
MaxReq == 2
MaxReqMitm == 1
MaxHosts == 2
MaxCalls == 3
MaxProxyDials == 2
MaxBody == 2

Conns == 1..NConn

\* ------------------------------------------------------------------ values
ConnectAccept == 0
ConnectReject == 1
ConnectMitm == 2
ConnectHijack == 3
ConnectHTTPMitm == 4
ConnectProxyAuthHijack == 5

\* ConnectAction values a handler can return; TLSConfig is "FromCA" for the
\* factory TLSConfigFromCA(&GoproxyCa) and "nil" for an action built without one.
OkConnect == [Action |-> ConnectAccept, TLSConfig |-> "FromCA"]
MitmConnect == [Action |-> ConnectMitm, TLSConfig |-> "FromCA"]
HTTPMitmConnect == [Action |-> ConnectHTTPMitm, TLSConfig |-> "FromCA"]
RejectConnect == [Action |-> ConnectReject, TLSConfig |-> "FromCA"]
HijackConnect == [Action |-> ConnectHijack, TLSConfig |-> "nil"]
ProxyAuthHijackConnect == [Action |-> ConnectProxyAuthHijack, TLSConfig |-> "nil"]
MitmNoConfigConnect == [Action |-> ConnectMitm, TLSConfig |-> "nil"]

NilAction == [Action |-> -1, TLSConfig |-> "nil"]

ConnectActions ==
    {OkConnect, MitmConnect, HTTPMitmConnect, RejectConnect, HijackConnect,
     ProxyAuthHijackConnect, MitmNoConfigConnect}

Hosts == {<<"a.b", ":", "443">>, <<"c.d">>}

Ok11 == "HTTP/1.1 200 OK\r\n\r\n"
Ok10 == "HTTP/1.0 200 OK\r\n\r\n"
AuthRequired == "HTTP/1.1 407 Proxy Authentication Required\r\n"
ServerError == "HTTP/1.1 500 Server error\r\n\r\n"
PreparedResp == "ctx.Resp"
OriginBytes == "origin bytes"
ClientBytes == "client bytes"

\* Names a signing request can hold, in the byte order sort.Strings uses, with
\* the two tags signHost appends to the list it hashes.
SignerVersion == <<":goroxy1">>
RuntimeVersion == <<":go1.x">>
SortedNames == << <<"1.2.3.4">>, RuntimeVersion, SignerVersion, <<"a.b">>, <<"c.d">> >>
SignNames == {<<"a.b">>, <<"c.d">>, <<"1.2.3.4">>}
IPLiterals == {<<"1.2.3.4">>}

ZeroCert == [Serial |-> <<>>, DNSNames |-> <<>>, IPAddresses |-> <<>>, CommonName |-> <<>>]

Protos == {"h2", "http/1.1", ""}

PanicConversion == "panic: interface conversion: io.ReadWriteCloser is *net.TCPConn, not *tls.UConn"
FatalMapAccess == "fatal error: concurrent map writes"

ZeroConfig == [NextProtos |-> <<>>, Renegotiation |-> "RenegotiateNever", MinVersion |-> 0,
               InsecureSkipVerify |-> FALSE, ServerName |-> <<>>, Certificates |-> <<>>]

VARIABLES
    nHandlers,     \* len(proxy.httpsHandlers)
    alwaysMitm,    \* every installed handler returns (MitmConnect, host)
    nClients,      \* how many clients send a CONNECT
    hasH2Handler,  \* proxy.Http2Handler != nil
    maxReq,        \* how many requests a client sends at most inside its tunnel
    maxBody,       \* how many chunks the body of a response has
    ca,            \* the CA given to signHost: is its certificate parsable, its key supported
    sess,          \* proxy.sess
    allocs,        \* the contexts created so far, in order: <<connection, kind, Session>>
    fault,         \* "none", or what the process died of: a panic, a runtime fault
    hostMapNil,    \* hostMap == nil
    hostMap,       \* the entries of hostMap
    mints,         \* the hostname lists certificates were generated for, in order
    calls,         \* the direct calls of signHost that returned, in order
    defaultTLSConfig,
    pc,            \* position of the task of each CONNECT
    reqHost,       \* r.URL.Host and r.Host of the CONNECT request
    hIdx,          \* index of the next handler of the chain
    invoked,       \* what the handlers invoked so far returned: <<index, action, host>>
    todo, host,    \* the locals of handleHttps
    ctxResp,       \* ctx.Resp is not nil
    clientOut, clientClosed,
    originOut,
    origin,        \* the state of every origin connection this CONNECT opened, in order
    dials,         \* how many times this CONNECT dialed an origin
    relay,         \* a byte relay: its kind, its copiers and its half-closes
    proxyDials,    \* the calls of a dial function made by NewConnectDialToProxyWithHandler
    cfg,           \* the tls.Config made for this CONNECT by the factory
    mitm           \* the locals of the TLS-MITM and the HTTP-MITM task

confVars == <<nHandlers, alwaysMitm, nClients, hasH2Handler, maxReq, maxBody, ca>>
signVars == <<hostMapNil, hostMap, mints>>
chainVars == <<reqHost, hIdx, invoked, todo, host, ctxResp>>
ioVars == <<clientOut, clientClosed, originOut, origin, dials>>
httpsVars == <<sess, allocs, fault, defaultTLSConfig, pc, chainVars, ioVars, relay, cfg, mitm>>

vars == <<confVars, signVars, calls, proxyDials, httpsVars>>

\* ------------------------------------------------------------------ strings
Range(s) == {s[i] : i \in 1..Len(s)}

IndexColon(s) ==
    IF \E i \in 1..Len(s) : s[i] = ":"
    THEN CHOOSE i \in 1..Len(s) : s[i] = ":" /\ \A j \in 1..(i - 1) : s[j] # ":"
    ELSE -1

stripPort(s) ==
    LET ix == IndexColon(s) IN IF ix = -1 THEN s ELSE SubSeq(s, 1, ix - 1)

Digits == {"80", "443"}

hasPort(s) == Len(s) >= 2 /\ s[Len(s) - 1] = ":" /\ s[Len(s)] \in Digits

Rank(s) == CHOOSE i \in 1..Len(SortedNames) : SortedNames[i] = s

RECURSIVE Insert(_, _)
Insert(s, x) ==
    IF s = <<>> THEN <<x>>
    ELSE IF Rank(x) <= Rank(Head(s)) THEN <<x>> \o s
    ELSE <<Head(s)>> \o Insert(Tail(s), x)

RECURSIVE SortStrings(_)
SortStrings(lst) ==
    IF lst = <<>> THEN <<>> ELSE Insert(SortStrings(Tail(lst)), Head(lst))

\* SHA1 is taken to be injective: the hash is the sorted list it is fed.
hashSorted(lst) == SortStrings(lst)

ParseIP(h) == h \in IPLiterals

RECURSIVE Filter(_, _)
Filter(s, keepIP) ==
    IF s = <<>> THEN <<>>
    ELSE IF ParseIP(Head(s)) = keepIP THEN <<Head(s)>> \o Filter(Tail(s), keepIP)
    ELSE Filter(Tail(s), keepIP)

\* ------------------------------------------------------------------ signHost
\* Lines 40-51: with a cache, an empty list and a hit on hosts[0] return at once.
CacheReturns(hosts) ==
    /\ ~hostMapNil
    /\ \/ Len(hosts) = 0
       \/ hosts[1] \in DOMAIN hostMap

CachedCert(hosts) == IF Len(hosts) = 0 THEN ZeroCert ELSE hostMap[hosts[1]]

\* Lines 54 and 88: the two errors that depend on the CA only.
MintFails == ~ca.certValid \/ ~ca.keySupported

\* Lines 62-102: the serial from the hash, the SANs and the CommonName from the range loop.
MintCert(hosts) ==
    LET dns == Filter(hosts, FALSE)
    IN  [Serial |-> hashSorted(hosts \o <<SignerVersion, RuntimeVersion>>),
         DNSNames |-> dns,
         IPAddresses |-> Filter(hosts, TRUE),
         CommonName |-> IF dns = <<>> THEN <<>> ELSE dns[Len(dns)]]

\* Lines 105-113: the certificate is stored under every host of the list.
StoreCert(hosts, cert) ==
    [h \in DOMAIN hostMap \cup Range(hosts) |-> IF h \in Range(hosts) THEN cert ELSE hostMap[h]]

RECURSIVE SeqsUpTo(_, _)
SeqsUpTo(S, n) ==
    IF n = 0 THEN {<<>>}
    ELSE LET shorter == SeqsUpTo(S, n - 1)
         IN  shorter \cup {Append(s, x) : s \in shorter, x \in S}

HostLists == SeqsUpTo(SignNames, MaxHosts)

\* One whole call signHost(ca, hosts) by a single caller.
SignHostCall(hosts) ==
    /\ Len(calls) < MaxCalls
    /\ IF CacheReturns(hosts)
       THEN /\ calls' = Append(calls, [hosts |-> hosts, cert |-> CachedCert(hosts),
                                       err |-> FALSE, minted |-> FALSE, stored |-> FALSE])
            /\ UNCHANGED signVars
       ELSE IF MintFails
       THEN /\ calls' = Append(calls, [hosts |-> hosts, cert |-> ZeroCert,
                                       err |-> TRUE, minted |-> FALSE, stored |-> FALSE])
            /\ UNCHANGED signVars
       ELSE /\ calls' = Append(calls, [hosts |-> hosts, cert |-> MintCert(hosts),
                                       err |-> FALSE, minted |-> TRUE, stored |-> TRUE])
            /\ mints' = Append(mints, hosts)
            /\ hostMapNil' = FALSE
            /\ hostMap' = StoreCert(hosts, MintCert(hosts))
    /\ UNCHANGED <<confVars, proxyDials, httpsVars>>

NoRelay == [kind |-> "none", toClient |-> "off", toOrigin |-> "off", wg |-> 0,
            shut |-> {}, nToClient |-> 0, nToOrigin |-> 0,
            clientGone |-> FALSE, originGone |-> FALSE]

\* What the MITM loops do with the request they are serving, in order.
FilterRequestResp == "filterRequest: resp"
FilterRequestNil == "filterRequest: nil"
ReqWrite == "req.Write"
ReadResponse == "http.ReadResponse"
CtxRoundTrip == "ctx.RoundTrip"
FallbackRoundTrip == "roundTripper.RoundTrip"
FilterResponse == "filterResponse"
RespWrite == "resp.Write"

NoMitm == [shared |-> FALSE, upstream |-> FALSE, remote |-> "nil", clientProto |-> "",
           remoteProto |-> "", roundTripper |-> "nil", nReq |-> 0, resp |-> "none",
           trips |-> 0, hosts |-> <<>>, cert |-> ZeroCert, log |-> <<>>,
           clientTls |-> "none", placeholder |-> "none", method |-> <<>>,
           clientGone |-> FALSE, written |-> 0, bodyLeft |-> 0, copying |-> FALSE]

InitState ==
    /\ sess = 0
    /\ allocs = <<>>
    /\ fault = "none"
    /\ hostMapNil = TRUE
    /\ hostMap = <<>>
    /\ mints = <<>>
    /\ calls = <<>>
    /\ proxyDials = <<>>
    /\ defaultTLSConfig = ZeroConfig
    /\ pc = [c \in Conns |-> "idle"]
    /\ reqHost = [c \in Conns |-> <<>>]
    /\ hIdx = [c \in Conns |-> 1]
    /\ invoked = [c \in Conns |-> <<>>]
    /\ todo = [c \in Conns |-> NilAction]
    /\ host = [c \in Conns |-> <<>>]
    /\ ctxResp = [c \in Conns |-> FALSE]
    /\ clientOut = [c \in Conns |-> <<>>]
    /\ clientClosed = [c \in Conns |-> FALSE]
    /\ originOut = [c \in Conns |-> <<>>]
    /\ origin = [c \in Conns |-> <<>>]
    /\ dials = [c \in Conns |-> 0]
    /\ relay = [c \in Conns |-> NoRelay]
    /\ cfg = [c \in Conns |-> ZeroConfig]
    /\ mitm = [c \in Conns |-> NoMitm]

CAs == [certValid : BOOLEAN, keySupported : BOOLEAN]

\* A proxy with any chain of at most MaxHandlers handlers, serving one CONNECT.
Init ==
    /\ InitState
    /\ nHandlers \in 0..MaxHandlers
    /\ alwaysMitm = FALSE
    /\ nClients = 1
    /\ hasH2Handler \in BOOLEAN
    /\ maxReq = MaxReq
    /\ maxBody = MaxBody
    /\ ca \in CAs

\* The signer alone, called directly.
InitSigner ==
    /\ InitState
    /\ nHandlers = 0
    /\ alwaysMitm = FALSE
    /\ nClients = 0
    /\ hasH2Handler = FALSE
    /\ maxReq = 0
    /\ maxBody = 0
    /\ ca \in CAs

NextSigner == \E hosts \in HostLists : SignHostCall(hosts)

SpecSigner == InitSigner /\ [][NextSigner]_vars

\* ------------------------------------------------------------------ upstream proxy
\* The https_proxy URLs: whether url.Parse fails, and the scheme.
ProxyURLs == [parseErr : BOOLEAN, scheme : {"", "http", "https", "wss", "socks5"}]

\* Which of the two dial functions NewConnectDialToProxyWithHandler returns.
NewConnectDialToProxyWithHandler(u) ==
    IF u.parseErr THEN "nil"
    ELSE IF u.scheme \in {"", "http"} THEN "http"
    ELSE IF u.scheme \in {"https", "wss"} THEN "https"
    ELSE "nil"

StatusOK == 200
Statuses == {200, 407, 502}
Bodies == {<<>>, <<"denied">>, <<"500 bytes", "and more">>}
Refused == "proxy refused connection"

\* ioutil.ReadAll of the body, behind io.LimitReader(resp.Body, 500) in the
\* dial function of the https scheme.
ReadBody(kind, body) == IF kind = "https" /\ Len(body) > 1 THEN SubSeq(body, 1, 1) ELSE body

NoConn(kind, addr, status, err, closed) ==
    [dialer |-> kind, addr |-> addr, status |-> status, conn |-> FALSE, err |-> err,
     closed |-> closed]

\* The dial function with the test of the status code taken out.
ProxyDialAnyStatus(u, addr) ==
    LET kind == NewConnectDialToProxyWithHandler(u) IN
    /\ kind # "nil"
    /\ Len(proxyDials) < MaxProxyDials
    /\ \E status \in Statuses :
         proxyDials' = Append(proxyDials, [dialer |-> kind, addr |-> addr, status |-> status,
                                           conn |-> TRUE, err |-> <<>>, closed |-> FALSE])
    /\ UNCHANGED <<confVars, signVars, calls, httpsVars>>

\* One call dial(network, addr) of the function made for the proxy URL u: the
\* dial of the proxy, the CONNECT request, the response, its status, its body.
\* status 0 stands for no response.
ProxyDial(u, addr) ==
    LET kind == NewConnectDialToProxyWithHandler(u) IN
    /\ kind # "nil"
    /\ Len(proxyDials) < MaxProxyDials
    /\ \/ proxyDials' = Append(proxyDials, NoConn(kind, addr, 0, <<"dial error">>, FALSE))
       \/ proxyDials' = Append(proxyDials, NoConn(kind, addr, 0, <<"read error">>, TRUE))
       \/ \E status \in Statuses :
            IF status = StatusOK
            THEN proxyDials' = Append(proxyDials,
                        [dialer |-> kind, addr |-> addr, status |-> status, conn |-> TRUE,
                         err |-> <<>>, closed |-> FALSE])
            ELSE \/ \E body \in Bodies :
                      proxyDials' = Append(proxyDials,
                          NoConn(kind, addr, status, <<Refused>> \o ReadBody(kind, body), TRUE))
                 \/ proxyDials' = Append(proxyDials,
                          NoConn(kind, addr, status, <<"read error">>, FALSE))
    /\ UNCHANGED <<confVars, signVars, calls, httpsVars>>

NextDialer == \E u \in ProxyURLs, addr \in Hosts : ProxyDial(u, addr)

SpecDialer == InitSigner /\ [][NextDialer]_vars

\* ------------------------------------------------------------------ dispatcher
\* httpError: the 500 is written to w, then w is closed.
httpError(c) ==
    /\ clientOut' = [clientOut EXCEPT ![c] = Append(@, ServerError)]
    /\ clientClosed' = [clientClosed EXCEPT ![c] = TRUE]

\* What a handler may return: anything, or what AlwaysMitm returns.
HandlerReturns(c) ==
    IF alwaysMitm
    THEN {<<MitmConnect, host[c], FALSE>>}
    ELSE (ConnectActions \cup {NilAction}) \X Hosts \X BOOLEAN

\* Connect with the counter read and written back without the atomic add:
\* the context gets sess + 1, the counter keeps its value.
ConnectStaleSession(c) ==
    /\ fault = "none"
    /\ pc[c] = "idle"
    /\ c = Cardinality({d \in Conns : pc[d] # "idle"}) + 1
    /\ c <= nClients
    /\ sess' = IF c = 1 THEN sess + 1 ELSE sess
    /\ allocs' = Append(allocs, <<c, "connect", sess' >>)
    /\ \E h \in Hosts :
        /\ reqHost' = [reqHost EXCEPT ![c] = h]
        /\ host' = [host EXCEPT ![c] = h]
    /\ todo' = [todo EXCEPT ![c] = OkConnect]
    /\ pc' = [pc EXCEPT ![c] = "handlers"]
    /\ UNCHANGED <<confVars, proxyDials, signVars, calls, fault, defaultTLSConfig, hIdx, invoked,
                   ctxResp, ioVars, relay, cfg, mitm>>

\* Connect with a counter that advances by two.
ConnectSkipSession(c) ==
    /\ fault = "none"
    /\ pc[c] = "idle"
    /\ c = Cardinality({d \in Conns : pc[d] # "idle"}) + 1
    /\ c <= nClients
    /\ sess' = sess + 2
    /\ allocs' = Append(allocs, <<c, "connect", sess + 2>>)
    /\ \E h \in Hosts :
        /\ reqHost' = [reqHost EXCEPT ![c] = h]
        /\ host' = [host EXCEPT ![c] = h]
    /\ todo' = [todo EXCEPT ![c] = OkConnect]
    /\ pc' = [pc EXCEPT ![c] = "handlers"]
    /\ UNCHANGED <<confVars, proxyDials, signVars, calls, fault, defaultTLSConfig, hIdx, invoked,
                   ctxResp, ioVars, relay, cfg, mitm>>

\* handleHttps up to the handler loop: the context, the hijack, the defaults.
Connect(c) ==
    /\ fault = "none"
    /\ pc[c] = "idle"
    /\ c = Cardinality({d \in Conns : pc[d] # "idle"}) + 1
    /\ c <= nClients
    /\ sess' = sess + 1
    /\ allocs' = Append(allocs, <<c, "connect", sess + 1>>)
    /\ \E h \in Hosts :
        /\ reqHost' = [reqHost EXCEPT ![c] = h]
        /\ host' = [host EXCEPT ![c] = h]
    /\ todo' = [todo EXCEPT ![c] = OkConnect]
    /\ pc' = [pc EXCEPT ![c] = "handlers"]
    /\ UNCHANGED <<confVars, proxyDials, signVars, calls, fault, defaultTLSConfig, hIdx, invoked,
                   ctxResp, ioVars, relay, cfg, mitm>>

\* HandleConnect with "todo, host = newtodo, newhost" moved out of the if, and
\* the nil action filtered afterwards: the host of an abstaining handler stays.
HandleConnectKeepHost(c) ==
    /\ fault = "none"
    /\ pc[c] = "handlers"
    /\ hIdx[c] <= nHandlers
    /\ \E ret \in HandlerReturns(c) :
        LET newtodo == ret[1]
            newhost == ret[2]
        IN  /\ invoked' = [invoked EXCEPT ![c] = Append(@, <<hIdx[c], newtodo, newhost>>)]
            /\ ctxResp' = [ctxResp EXCEPT ![c] = @ \/ ret[3]]
            /\ host' = [host EXCEPT ![c] = newhost]
            /\ IF newtodo # NilAction
               THEN /\ todo' = [todo EXCEPT ![c] = newtodo]
                    /\ pc' = [pc EXCEPT ![c] = "switch"]
                    /\ UNCHANGED hIdx
               ELSE /\ hIdx' = [hIdx EXCEPT ![c] = @ + 1]
                    /\ UNCHANGED <<todo, pc>>
    /\ UNCHANGED <<confVars, proxyDials, signVars, calls, sess, allocs, fault, defaultTLSConfig,
                   reqHost, ioVars, relay, cfg, mitm>>

\* One iteration of the handler loop: h.HandleConnect(host, ctx) returns
\* (newtodo, newhost) and may have set ctx.Resp.
HandleConnect(c) ==
    /\ fault = "none"
    /\ pc[c] = "handlers"
    /\ hIdx[c] <= nHandlers
    /\ \E ret \in HandlerReturns(c) :
        LET newtodo == ret[1]
            newhost == ret[2]
        IN  /\ invoked' = [invoked EXCEPT ![c] = Append(@, <<hIdx[c], newtodo, newhost>>)]
            /\ ctxResp' = [ctxResp EXCEPT ![c] = @ \/ ret[3]]
            /\ IF newtodo # NilAction
               THEN /\ todo' = [todo EXCEPT ![c] = newtodo]
                    /\ host' = [host EXCEPT ![c] = newhost]
                    /\ pc' = [pc EXCEPT ![c] = "switch"]
                    /\ UNCHANGED hIdx
               ELSE /\ hIdx' = [hIdx EXCEPT ![c] = @ + 1]
                    /\ UNCHANGED <<todo, host, pc>>
    /\ UNCHANGED <<confVars, proxyDials, signVars, calls, sess, allocs, fault, defaultTLSConfig,
                   reqHost, ioVars, relay, cfg, mitm>>

\* The handler loop ends with no handler left.
HandlersDone(c) ==
    /\ fault = "none"
    /\ pc[c] = "handlers"
    /\ hIdx[c] > nHandlers
    /\ pc' = [pc EXCEPT ![c] = "switch"]
    /\ UNCHANGED <<confVars, proxyDials, signVars, calls, sess, allocs, fault, defaultTLSConfig,
                   chainVars, ioVars, relay, cfg, mitm>>

\* Accept with the 200 written before the dial, as the MITM cases write theirs.
AcceptOkBeforeDial(c) ==
    /\ fault = "none"
    /\ pc[c] = "switch"
    /\ todo[c].Action = ConnectAccept
    /\ host' = [host EXCEPT ![c] = IF hasPort(@) THEN @ ELSE @ \o <<":", "80">>]
    /\ dials' = [dials EXCEPT ![c] = @ + 1]
    /\ \E dialOk \in BOOLEAN :
        IF ~dialOk
        THEN /\ clientOut' = [clientOut EXCEPT ![c] = @ \o <<Ok11, ServerError>>]
             /\ clientClosed' = [clientClosed EXCEPT ![c] = TRUE]
             /\ pc' = [pc EXCEPT ![c] = "done"]
             /\ UNCHANGED <<origin, relay>>
        ELSE /\ origin' = [origin EXCEPT ![c] = Append(@, "open")]
             /\ clientOut' = [clientOut EXCEPT ![c] = Append(@, Ok11)]
             /\ \E targetOK \in BOOLEAN, clientOK \in BOOLEAN :
                 relay' = [relay EXCEPT ![c] =
                     [NoRelay EXCEPT !.kind = IF targetOK /\ clientOK THEN "half" ELSE "full",
                                     !.toClient = "run", !.toOrigin = "run",
                                     !.wg = IF targetOK /\ clientOK THEN 0 ELSE 2]]
             /\ pc' = [pc EXCEPT ![c] = "relay"]
             /\ UNCHANGED clientClosed
    /\ UNCHANGED <<confVars, proxyDials, signVars, calls, sess, allocs, fault, defaultTLSConfig,
                   reqHost, hIdx, invoked, todo, ctxResp, originOut, cfg, mitm>>

\* case ConnectAccept: the dial, then the 500 or the 200 and the copiers.
Accept(c) ==
    /\ fault = "none"
    /\ pc[c] = "switch"
    /\ todo[c].Action = ConnectAccept
    /\ host' = [host EXCEPT ![c] = IF hasPort(@) THEN @ ELSE @ \o <<":", "80">>]
    /\ dials' = [dials EXCEPT ![c] = @ + 1]
    /\ \E dialOk \in BOOLEAN :
        IF ~dialOk
        THEN /\ httpError(c)
             /\ pc' = [pc EXCEPT ![c] = "done"]
             /\ UNCHANGED <<origin, relay>>
        ELSE /\ origin' = [origin EXCEPT ![c] = Append(@, "open")]
             /\ clientOut' = [clientOut EXCEPT ![c] = Append(@, Ok11)]
             /\ \E targetOK \in BOOLEAN, clientOK \in BOOLEAN :
                 relay' = [relay EXCEPT ![c] =
                     [NoRelay EXCEPT !.kind = IF targetOK /\ clientOK THEN "half" ELSE "full",
                                     !.toClient = "run", !.toOrigin = "run",
                                     !.wg = IF targetOK /\ clientOK THEN 0 ELSE 2]]
             /\ pc' = [pc EXCEPT ![c] = "relay"]
             /\ UNCHANGED clientClosed
    /\ UNCHANGED <<confVars, proxyDials, signVars, calls, sess, allocs, fault, defaultTLSConfig,
                   reqHost, hIdx, invoked, todo, ctxResp, originOut, cfg, mitm>>

\* Reject with proxyClient.Close() moved into the if.
RejectCloseInsideIf(c) ==
    /\ fault = "none"
    /\ pc[c] = "switch"
    /\ todo[c].Action = ConnectReject
    /\ clientOut' = [clientOut EXCEPT ![c] = IF ctxResp[c] THEN Append(@, PreparedResp) ELSE @]
    /\ clientClosed' = [clientClosed EXCEPT ![c] = ctxResp[c]]
    /\ pc' = [pc EXCEPT ![c] = "done"]
    /\ UNCHANGED <<confVars, proxyDials, signVars, calls, sess, allocs, fault, defaultTLSConfig,
                   chainVars, originOut, origin, dials, relay, cfg, mitm>>

\* case ConnectReject.
Reject(c) ==
    /\ fault = "none"
    /\ pc[c] = "switch"
    /\ todo[c].Action = ConnectReject
    /\ clientOut' = [clientOut EXCEPT ![c] = IF ctxResp[c] THEN Append(@, PreparedResp) ELSE @]
    /\ clientClosed' = [clientClosed EXCEPT ![c] = TRUE]
    /\ pc' = [pc EXCEPT ![c] = "done"]
    /\ UNCHANGED <<confVars, proxyDials, signVars, calls, sess, allocs, fault, defaultTLSConfig,
                   chainVars, originOut, origin, dials, relay, cfg, mitm>>

\* case ConnectHijack and case ConnectProxyAuthHijack: the status line,
\* then the connection belongs to todo.Hijack.
Hijack(c) ==
    /\ fault = "none"
    /\ pc[c] = "switch"
    /\ todo[c].Action \in {ConnectHijack, ConnectProxyAuthHijack}
    /\ clientOut' = [clientOut EXCEPT ![c] =
            Append(@, IF todo[c].Action = ConnectHijack THEN Ok10 ELSE AuthRequired)]
    /\ pc' = [pc EXCEPT ![c] = "hijacked"]
    /\ UNCHANGED <<confVars, proxyDials, signVars, calls, sess, allocs, fault, defaultTLSConfig,
                   chainVars, clientClosed, originOut, origin, dials, relay, cfg, mitm>>

\* ------------------------------------------------------------------ byte relay
\* An endpoint of the tunnel closes its connection. relay[c].clientGone and
\* relay[c].originGone say which endpoints have.
PeerClose(c, client) ==
    /\ fault = "none"
    /\ relay[c].kind # "none"
    /\ relay[c].toClient = "run" \/ relay[c].toOrigin = "run"
    /\ IF client
       THEN ~relay[c].clientGone /\ relay' = [relay EXCEPT ![c].clientGone = TRUE]
       ELSE ~relay[c].originGone /\ relay' = [relay EXCEPT ![c].originGone = TRUE]
    /\ UNCHANGED <<confVars, proxyDials, signVars, calls, sess, allocs, fault,
                   defaultTLSConfig, pc, chainVars, ioVars, cfg, mitm>>

\* io.Copy moves one more chunk in one direction: an endpoint that has not
\* closed sent it, and the other one, not closed either, is written it.
CopyChunk(c, toClient) ==
    /\ fault = "none"
    /\ relay[c].kind # "none"
    /\ ~relay[c].clientGone /\ ~relay[c].originGone
    /\ IF toClient
       THEN /\ relay[c].toClient = "run"
            /\ relay[c].nToClient < MaxRelay
            /\ clientOut' = [clientOut EXCEPT ![c] = Append(@, OriginBytes)]
            /\ relay' = [relay EXCEPT ![c].nToClient = @ + 1]
            /\ UNCHANGED originOut
       ELSE /\ relay[c].toOrigin = "run"
            /\ relay[c].nToOrigin < MaxRelay
            /\ originOut' = [originOut EXCEPT ![c] = Append(@, ClientBytes)]
            /\ relay' = [relay EXCEPT ![c].nToOrigin = @ + 1]
            /\ UNCHANGED clientOut
    /\ UNCHANGED <<confVars, proxyDials, signVars, calls, sess, allocs, fault, defaultTLSConfig, pc,
                   chainVars, clientClosed, origin, dials, cfg, mitm>>

\* copyAndClose with its two half-closes on the wrong connections.
CopyEndSwapped(c, toClient) ==
    /\ fault = "none"
    /\ relay[c].kind # "none"
    /\ IF toClient THEN relay[c].toClient = "run" ELSE relay[c].toOrigin = "run"
    /\ relay' = [relay EXCEPT ![c] =
          [@ EXCEPT !.toClient = IF toClient THEN "end" ELSE @,
                    !.toOrigin = IF toClient THEN @ ELSE "end",
                    !.wg = IF relay[c].kind = "full" THEN @ - 1 ELSE @,
                    !.shut = IF relay[c].kind = "half"
                             THEN @ \cup (IF toClient
                                          THEN {"origin.CloseWrite", "client.CloseRead"}
                                          ELSE {"client.CloseWrite", "origin.CloseRead"})
                             ELSE @]]
    /\ pc' = [pc EXCEPT ![c] =
          IF \/ relay[c].kind = "rdg" /\ ~toClient
             \/ relay[c].kind = "ws" /\ toClient
          THEN "done" ELSE @]
    /\ UNCHANGED <<confVars, proxyDials, signVars, calls, sess, allocs, fault, defaultTLSConfig,
                   chainVars, ioVars, cfg, mitm>>

\* io.Copy returns in one direction (end of stream or error), and what follows
\* it: copyAndClose's half-closes, copyOrWarn's wg.Done, or the return of the
\* task when the copy ran in its foreground (RDG: client to origin; WebSocket:
\* origin to client).
CopyEnd(c, toClient) ==
    /\ fault = "none"
    /\ relay[c].kind # "none"
    /\ IF toClient THEN relay[c].toClient = "run" ELSE relay[c].toOrigin = "run"
    /\ relay' = [relay EXCEPT ![c] =
          [@ EXCEPT !.toClient = IF toClient THEN "end" ELSE @,
                    !.toOrigin = IF toClient THEN @ ELSE "end",
                    !.wg = IF relay[c].kind = "full" THEN @ - 1 ELSE @,
                    !.shut = IF relay[c].kind = "half"
                             THEN @ \cup (IF toClient
                                          THEN {"client.CloseWrite", "origin.CloseRead"}
                                          ELSE {"origin.CloseWrite", "client.CloseRead"})
                             ELSE @]]
    /\ pc' = [pc EXCEPT ![c] =
          IF \/ relay[c].kind = "rdg" /\ ~toClient
             \/ relay[c].kind = "ws" /\ toClient
          THEN "done" ELSE @]
    /\ UNCHANGED <<confVars, proxyDials, signVars, calls, sess, allocs, fault, defaultTLSConfig,
                   chainVars, ioVars, cfg, mitm>>

\* io.Copy returns because its source has closed: Read returns io.EOF.
CopyEof(c, toClient) ==
    /\ IF toClient THEN relay[c].originGone ELSE relay[c].clientGone
    /\ CopyEnd(c, toClient)

\* The closes of lines 128-129 with wg.Wait() taken out.
RelayCloseNoWait(c) ==
    /\ fault = "none"
    /\ pc[c] = "relay"
    /\ relay[c].kind = "full"
    /\ clientClosed' = [clientClosed EXCEPT ![c] = TRUE]
    /\ origin' = [origin EXCEPT ![c] = [i \in 1..Len(@) |-> "closed"]]
    /\ pc' = [pc EXCEPT ![c] = "done"]
    /\ UNCHANGED <<confVars, proxyDials, signVars, calls, sess, allocs, fault, defaultTLSConfig,
                   chainVars, clientOut, originOut, dials, relay, cfg, mitm>>

\* wg.Wait() returns: both connections are closed.
RelayClose(c) ==
    /\ fault = "none"
    /\ pc[c] = "relay"
    /\ relay[c].kind = "full"
    /\ relay[c].wg = 0
    /\ clientClosed' = [clientClosed EXCEPT ![c] = TRUE]
    /\ origin' = [origin EXCEPT ![c] = [i \in 1..Len(@) |-> "closed"]]
    /\ pc' = [pc EXCEPT ![c] = "done"]
    /\ UNCHANGED <<confVars, proxyDials, signVars, calls, sess, allocs, fault, defaultTLSConfig,
                   chainVars, clientOut, originOut, dials, relay, cfg, mitm>>

\* ------------------------------------------------------------------ TLS config
\* The tls.Config the MITM task works on: the one its factory made, or
\* defaultTLSConfig itself when the action has no factory (line 182).
Config(c) == IF mitm[c].shared THEN defaultTLSConfig ELSE cfg[c]

SetConfig(c, v) ==
    IF mitm[c].shared
    THEN defaultTLSConfig' = v /\ UNCHANGED cfg
    ELSE cfg' = [cfg EXCEPT ![c] = v] /\ UNCHANGED defaultTLSConfig

\* Another task is writing hostMap.
Racing(c) == \E d \in Conns \ {c} : pc[d] = "sign_store"

\* The end of the factory of TLSConfigFromCA: ServerName and the certificate.
FactoryReturn(c, base, hostname, cert) ==
    /\ cfg' = [cfg EXCEPT ![c] = [base EXCEPT !.ServerName = hostname,
                                             !.Certificates = Append(@, cert)]]
    /\ pc' = [pc EXCEPT ![c] = "mitm_dial"]

\* case ConnectMitm up to the call of the factory.
Mitm(c) ==
    /\ fault = "none"
    /\ pc[c] = "switch"
    /\ todo[c].Action = ConnectMitm
    /\ clientOut' = [clientOut EXCEPT ![c] = Append(@, Ok10)]
    /\ IF todo[c].TLSConfig = "nil"
       THEN /\ mitm' = [mitm EXCEPT ![c].shared = TRUE]
            /\ pc' = [pc EXCEPT ![c] = "mitm_dial"]
       ELSE /\ mitm' = [mitm EXCEPT ![c].hosts = <<stripPort(host[c])>>]
            /\ pc' = [pc EXCEPT ![c] = "factory"]
    /\ UNCHANGED <<confVars, proxyDials, signVars, calls, sess, allocs, fault, defaultTLSConfig,
                   chainVars, clientClosed, originOut, origin, dials, relay, cfg>>

\* The factory copies defaultTLSConfig and calls signHost, which returns from
\* its cache, fails on the CA, or goes on to generate a certificate.
FactoryLookup(c) ==
    /\ fault = "none"
    /\ pc[c] = "factory"
    /\ IF CacheReturns(mitm[c].hosts)
       THEN /\ FactoryReturn(c, defaultTLSConfig, mitm[c].hosts[1], CachedCert(mitm[c].hosts))
            /\ UNCHANGED <<clientOut, clientClosed>>
       ELSE IF MintFails
       THEN /\ httpError(c)
            /\ pc' = [pc EXCEPT ![c] = "done"]
            /\ UNCHANGED cfg
       ELSE /\ cfg' = [cfg EXCEPT ![c] = defaultTLSConfig]
            /\ pc' = [pc EXCEPT ![c] = "sign_mint"]
            /\ UNCHANGED <<clientOut, clientClosed>>
    /\ UNCHANGED <<confVars, proxyDials, signVars, calls, sess, allocs, fault, defaultTLSConfig,
                   chainVars, originOut, origin, dials, relay, mitm>>

\* signHost generates the key and the certificate.
SignHostMint(c) ==
    /\ fault = "none"
    /\ pc[c] = "sign_mint"
    /\ mints' = Append(mints, mitm[c].hosts)
    /\ mitm' = [mitm EXCEPT ![c].cert = MintCert(mitm[c].hosts)]
    /\ pc' = [pc EXCEPT ![c] = "sign_store"]
    /\ UNCHANGED <<confVars, proxyDials, hostMapNil, hostMap, calls, sess, allocs, fault,
                   defaultTLSConfig, chainVars, ioVars, relay, cfg>>

\* signHost stores the certificate and returns it to the factory.
SignHostStore(c) ==
    /\ fault = "none"
    /\ pc[c] = "sign_store"
    /\ hostMapNil' = FALSE
    /\ hostMap' = StoreCert(mitm[c].hosts, mitm[c].cert)
    /\ FactoryReturn(c, cfg[c], mitm[c].hosts[1], mitm[c].cert)
    /\ UNCHANGED <<confVars, proxyDials, mints, calls, sess, allocs, fault, defaultTLSConfig,
                   chainVars, ioVars, relay, mitm>>

\* hostMap is read or written while another task writes it: the runtime may
\* stop the process ("concurrent map read and map write", "concurrent map writes").
MapFault(c) ==
    /\ fault = "none"
    /\ pc[c] \in {"factory", "sign_store"}
    /\ Racing(c)
    /\ fault' = FatalMapAccess
    /\ UNCHANGED <<confVars, proxyDials, signVars, calls, sess, allocs, defaultTLSConfig, pc,
                   chainVars, ioVars, relay, cfg, mitm>>

\* ------------------------------------------------------------------ TLS MITM
H2First == <<"h2", "http/1.1">>
Http11Only == <<"http/1.1">>

\* dialTls: what it returns (nil, the TCP connection, the TLS connection), the
\* protocol the origin negotiated, the NextProtos it leaves in tlsConfig and the
\* TCP connection it opened, if any. The Chrome ClientHello offers h2 and
\* http/1.1, the randomized one offers no ALPN.
dialTls(np, sameHost) ==
    LET invalidProtos == \E i \in 1..Len(np) : np[i] = ""
        np1 == IF invalidProtos THEN H2First ELSE np
        offered == IF Len(np1) > 0 /\ np1[1] # "h2" THEN {} ELSE {"h2", "http/1.1"}
    IN  {[remote |-> "nil", proto |-> "", np |-> np, conn |-> "none"]}
        \cup
        (IF ~sameHost
         THEN {[remote |-> "tcp", proto |-> "", np |-> np, conn |-> "open"]}
         ELSE {[remote |-> "nil", proto |-> "", np |-> np1, conn |-> "open"]}
              \cup
              {[remote |-> "tls", proto |-> p,
                np |-> IF p # "h2" THEN Http11Only ELSE H2First, conn |-> "open"] :
                    p \in offered \cup {""}})

\* Lines 213-220 and 233-240: no origin. A new tls.Server is put on the client
\* connection and its Handshake is called with the error dropped, then
\* httpError writes the 500 through it and closes it. A client that has
\* completed its handshake with the tls.Server of line 222 sends no second
\* ClientHello, so the new handshake fails; a Write on a tls.Conn whose
\* handshake failed returns that error and sends nothing.
CantDial(c, conf) ==
    /\ SetConfig(c, [conf EXCEPT !.NextProtos = Http11Only])
    /\ \E hsOk \in (IF mitm[c].clientTls = "ok" THEN {FALSE} ELSE BOOLEAN) :
        /\ clientOut' = [clientOut EXCEPT ![c] = IF hsOk THEN Append(@, ServerError) ELSE @]
        /\ mitm' = [mitm EXCEPT ![c].remote = "nil",
                                ![c].placeholder = IF hsOk THEN "ok" ELSE "failed"]
    /\ clientClosed' = [clientClosed EXCEPT ![c] = TRUE]
    /\ pc' = [pc EXCEPT ![c] = "done"]

\* The MITM task from its start to the return of the first dialTls.
MitmDial(c) ==
    /\ fault = "none"
    /\ pc[c] = "mitm_dial"
    /\ dials' = [dials EXCEPT ![c] = @ + 1]
    /\ \E up \in BOOLEAN :
        LET conf == [Config(c) EXCEPT !.Renegotiation = "RenegotiateFreelyAsClient",
                                      !.NextProtos = IF up THEN Http11Only ELSE H2First]
        IN  \E o \in dialTls(conf.NextProtos, ~up) :
              /\ origin' = [origin EXCEPT ![c] = IF o.conn = "none" THEN @ ELSE Append(@, o.conn)]
              /\ IF o.remote = "nil"
                 THEN CantDial(c, [conf EXCEPT !.NextProtos = o.np])
                 ELSE /\ SetConfig(c, [conf EXCEPT !.NextProtos = o.np])
                      /\ mitm' = [mitm EXCEPT ![c].upstream = up, ![c].remote = o.remote,
                                              ![c].remoteProto = o.proto]
                      /\ pc' = [pc EXCEPT ![c] = "mitm_hs"]
                      /\ UNCHANGED <<clientOut, clientClosed>>
    /\ UNCHANGED <<confVars, proxyDials, signVars, calls, sess, allocs, fault, chainVars, originOut, relay>>

\* The handshake with the client and the comparison of the two protocols.
MitmHandshake(c) ==
    /\ fault = "none"
    /\ pc[c] = "mitm_hs"
    /\ \/ /\ pc' = [pc EXCEPT ![c] = "done"]
          /\ UNCHANGED <<mitm, fault>>
       \/ \E p \in Range(Config(c).NextProtos) \cup {""} :
            /\ mitm' = [mitm EXCEPT ![c].clientProto = p, ![c].clientTls = "ok"]
            /\ IF mitm[c].remote = "tcp"
               THEN fault' = PanicConversion /\ UNCHANGED pc
               ELSE /\ pc' = [pc EXCEPT ![c] =
                            IF p # mitm[c].remoteProto THEN "mitm_redial" ELSE "mitm_alpn"]
                    /\ UNCHANGED fault
    /\ UNCHANGED <<confVars, proxyDials, signVars, calls, sess, allocs, defaultTLSConfig, chainVars,
                   ioVars, relay, cfg>>

\* Lines 230-240: the origin is closed and dialed again with the client's protocol.
MitmRedial(c) ==
    /\ fault = "none"
    /\ pc[c] = "mitm_redial"
    /\ dials' = [dials EXCEPT ![c] = @ + 1]
    /\ \E o \in dialTls(<<mitm[c].clientProto>>, TRUE) :
        LET closed == [origin[c] EXCEPT ![Len(origin[c])] = "closed"]
        IN  /\ origin' = [origin EXCEPT ![c] =
                    IF o.conn = "none" THEN closed ELSE Append(closed, o.conn)]
            /\ IF o.remote = "nil"
               THEN CantDial(c, [Config(c) EXCEPT !.NextProtos = o.np])
               ELSE /\ SetConfig(c, [Config(c) EXCEPT !.NextProtos = o.np])
                    /\ mitm' = [mitm EXCEPT ![c].remoteProto = o.proto]
                    /\ pc' = [pc EXCEPT ![c] = "mitm_alpn"]
                    /\ UNCHANGED <<clientOut, clientClosed>>
    /\ UNCHANGED <<confVars, proxyDials, signVars, calls, sess, allocs, fault, chainVars, originOut, relay>>

VersionTLS12 == 771

\* Lines 243-268: NextProtos after the client's protocol, then the HTTP/2
\* handler or the round-tripper of the HTTP/1.1 path.
MitmAlpn(c) ==
    /\ fault = "none"
    /\ pc[c] = "mitm_alpn"
    /\ IF mitm[c].clientProto = "h2"
       THEN /\ SetConfig(c, [Config(c) EXCEPT !.NextProtos = H2First])
            /\ pc' = [pc EXCEPT ![c] = IF hasH2Handler THEN "mitm_h2" ELSE "mitm_loop"]
            /\ UNCHANGED <<mitm, clientOut, clientClosed>>
       ELSE /\ SetConfig(c, [Config(c) EXCEPT !.NextProtos = <<"http/1.1", "h2">>,
                                              !.MinVersion = VersionTLS12,
                                              !.InsecureSkipVerify = TRUE])
            /\ \/ /\ mitm' = [mitm EXCEPT ![c].roundTripper = "hellorandomizednoalpn_maxtls"]
                  /\ pc' = [pc EXCEPT ![c] = "mitm_loop"]
                  /\ UNCHANGED <<clientOut, clientClosed>>
               \/ /\ httpError(c)
                  /\ pc' = [pc EXCEPT ![c] = "done"]
                  /\ UNCHANGED mitm
    /\ UNCHANGED <<confVars, proxyDials, signVars, calls, sess, allocs, fault, chainVars, originOut,
                   origin, dials, relay>>

\* proxy.Http2Handler returns.
MitmHttp2(c) ==
    /\ fault = "none"
    /\ pc[c] = "mitm_h2"
    /\ \E handled \in BOOLEAN :
        pc' = [pc EXCEPT ![c] = IF handled THEN "h2_handled" ELSE "mitm_loop"]
    /\ UNCHANGED <<confVars, proxyDials, signVars, calls, sess, allocs, fault, defaultTLSConfig,
                   chainVars, ioVars, relay, cfg, mitm>>

Request == "request"
Tunnel(kind) == [NoRelay EXCEPT !.kind = kind, !.toClient = "run", !.toOrigin = "run"]

\* The requests a client sends inside its tunnel. A method is a sequence of
\* pieces of text, a header a sequence of values, each one the sequence of the
\* items strings.Split(v, ",") makes of it.
Methods == {<<"GET">>, <<"RDG", "_OUT_DATA">>}

HeaderSets ==
    {[Connection |-> <<>>, Upgrade |-> <<>>],
     [Connection |-> << <<"Upgrade">> >>, Upgrade |-> <<>>],
     [Connection |-> << <<"keep-alive", " Upgrade">> >>, Upgrade |-> << <<"WebSocket">> >>]}

Requests == [Method : Methods, Header : HeaderSets]

\* strings.Contains(r.Method, "RDG")
ContainsRDG(method) == "RDG" \in Range(method)

\* strings.TrimSpace and the case folding of strings.EqualFold.
Folded(s) ==
    IF s \in {"Upgrade", " Upgrade", "upgrade"} THEN "upgrade"
    ELSE IF s \in {"WebSocket", "websocket"} THEN "websocket"
    ELSE s

headerContains(header, name, value) ==
    \E i \in 1..Len(header[name]) :
        \E j \in 1..Len(header[name][i]) : Folded(header[name][i][j]) = Folded(value)

isWebSocketRequest(r) ==
    IF ContainsRDG(r.Method) THEN FALSE
    ELSE headerContains(r.Header, "Connection", "upgrade")
         /\ headerContains(r.Header, "Upgrade", "websocket")

\* Lines 279-289: the request goes to the origin and the two copies start.
ReadRdg(c, req) ==
    /\ originOut' = [originOut EXCEPT ![c] = Append(@, Request)]
    /\ relay' = [relay EXCEPT ![c] = Tunnel("rdg")]
    /\ mitm' = [mitm EXCEPT ![c].nReq = @ + 1, ![c].log = <<ReqWrite>>,
                            ![c].method = req.Method]
    /\ pc' = [pc EXCEPT ![c] = "tunnel"]
    /\ UNCHANGED <<sess, allocs, clientOut, clientClosed>>

\* Lines 290 and 305-317: the context of the request, then the request to the
\* origin and the two copies, or the 500 when that write fails.
ReadWebSocket(c, req) ==
    /\ sess' = sess + 1
    /\ allocs' = Append(allocs, <<c, "inner", sess + 1>>)
    /\ mitm' = [mitm EXCEPT ![c].nReq = @ + 1, ![c].log = <<ReqWrite>>,
                            ![c].method = req.Method]
    /\ \/ /\ originOut' = [originOut EXCEPT ![c] = Append(@, Request)]
          /\ relay' = [relay EXCEPT ![c] = Tunnel("ws")]
          /\ pc' = [pc EXCEPT ![c] = "tunnel"]
          /\ UNCHANGED <<clientOut, clientClosed>>
       \/ /\ httpError(c)
          /\ pc' = [pc EXCEPT ![c] = "done"]
          /\ UNCHANGED <<originOut, relay>>

\* Lines 290 and 320-327: the context of the request and the request filters.
ReadHttp(c, req) ==
    /\ sess' = sess + 1
    /\ allocs' = Append(allocs, <<c, "inner", sess + 1>>)
    /\ \E synth \in BOOLEAN, urlErr \in BOOLEAN :
         /\ mitm' = [mitm EXCEPT ![c].nReq = @ + 1,
                                 ![c].resp = IF synth THEN "synth" ELSE "none",
                                 ![c].log = IF synth THEN <<FilterRequestResp>>
                                            ELSE <<FilterRequestNil>>,
                                 ![c].method = req.Method]
         /\ pc' = [pc EXCEPT ![c] = IF ~synth /\ urlErr THEN "done" ELSE "mitm_rt"]
    /\ UNCHANGED <<clientOut, clientClosed, originOut, relay>>

\* MitmRead with the test of lines 279-289 taken out.
MitmReadNoRdg(c) ==
    /\ fault = "none"
    /\ pc[c] = "mitm_loop"
    /\ \/ /\ pc' = [pc EXCEPT ![c] = "done"]
          /\ UNCHANGED <<sess, allocs, clientOut, clientClosed, originOut, relay, mitm>>
       \/ /\ mitm[c].nReq < maxReq
          /\ ~mitm[c].clientGone
          /\ \E req \in Requests :
               IF isWebSocketRequest(req) THEN ReadWebSocket(c, req) ELSE ReadHttp(c, req)
    /\ UNCHANGED <<confVars, proxyDials, signVars, calls, fault, defaultTLSConfig, chainVars,
                   origin, dials, cfg>>

\* The head of the per-request loop: isEof and http.ReadRequest (the end of the
\* stream or a read error ends the task), then the RDG case, the WebSocket
\* case, or the request filters.
MitmRead(c) ==
    /\ fault = "none"
    /\ pc[c] = "mitm_loop"
    /\ \/ /\ pc' = [pc EXCEPT ![c] = "done"]
          /\ UNCHANGED <<sess, allocs, clientOut, clientClosed, originOut, relay, mitm>>
       \/ /\ mitm[c].nReq < maxReq
          /\ ~mitm[c].clientGone
          /\ \E req \in Requests :
               IF ContainsRDG(req.Method) THEN ReadRdg(c, req)
               ELSE IF isWebSocketRequest(req) THEN ReadWebSocket(c, req)
               ELSE ReadHttp(c, req)
    /\ UNCHANGED <<confVars, proxyDials, signVars, calls, fault, defaultTLSConfig, chainVars,
                   origin, dials, cfg>>

\* Lines 329-333: the round-tripper of the session if it has one, else the
\* one of the context.
RoundTripOf(c) == IF mitm[c].roundTripper = "nil" THEN CtxRoundTrip ELSE FallbackRoundTrip

\* MitmRoundTrip without the test "resp == nil": the round trip is made for
\* every request.
MitmRoundTripAlways(c) ==
    /\ fault = "none"
    /\ pc[c] = "mitm_rt"
    /\ mitm' = [mitm EXCEPT ![c].resp = "origin", ![c].trips = @ + 1,
                            ![c].log = Append(@, RoundTripOf(c))]
    /\ pc' = [pc EXCEPT ![c] = "mitm_write"]
    /\ UNCHANGED <<confVars, proxyDials, signVars, calls, sess, allocs, fault, defaultTLSConfig,
                   chainVars, ioVars, relay, cfg>>

\* Lines 323-343: the round trip, unless the filters made a response.
MitmRoundTrip(c) ==
    /\ fault = "none"
    /\ pc[c] = "mitm_rt"
    /\ IF mitm[c].resp = "synth"
       THEN /\ pc' = [pc EXCEPT ![c] = "mitm_write"]
            /\ UNCHANGED <<mitm, clientOut, clientClosed, origin>>
       ELSE \/ /\ mitm' = [mitm EXCEPT ![c].resp = "origin", ![c].trips = @ + 1,
                                       ![c].log = Append(@, RoundTripOf(c))]
               /\ pc' = [pc EXCEPT ![c] = "mitm_write"]
               /\ UNCHANGED <<clientOut, clientClosed, origin>>
            \/ /\ mitm' = [mitm EXCEPT ![c].trips = @ + 1,
                                       ![c].log = Append(@, RoundTripOf(c))]
               /\ httpError(c)
               /\ origin' = [origin EXCEPT ![c] = [@ EXCEPT ![Len(@)] = "closed"]]
               /\ pc' = [pc EXCEPT ![c] = "done"]
    /\ UNCHANGED <<confVars, proxyDials, signVars, calls, sess, allocs, fault, defaultTLSConfig,
                   chainVars, originOut, dials, relay, cfg>>

StatusLine == "HTTP/1.1 status"
Headers == "headers"
CRLF == "\r\n"
Body == "chunks"
LastChunk == "0\r\n"

ResponseWrites == <<StatusLine, Headers, CRLF, Body, LastChunk, CRLF>>

\* MitmRespond with the returns after the failed writes taken out: the task
\* goes on to the body whatever was written.
MitmRespondContinue(c) ==
    /\ fault = "none"
    /\ pc[c] = "mitm_write"
    /\ \E failAt \in {0, 1, 2, 3} :
        LET n == IF failAt = 0 THEN 3 ELSE failAt - 1
        IN  /\ clientOut' = [clientOut EXCEPT ![c] = @ \o SubSeq(ResponseWrites, 1, n)]
            /\ pc' = [pc EXCEPT ![c] = "mitm_body"]
    /\ mitm' = [mitm EXCEPT ![c].resp = "none", ![c].log = @ \o <<FilterResponse, RespWrite>>,
                            ![c].written = 1, ![c].bodyLeft = maxBody, ![c].copying = FALSE]
    /\ UNCHANGED <<confVars, proxyDials, signVars, calls, sess, allocs, fault, defaultTLSConfig,
                   chainVars, clientClosed, originOut, origin, dials, relay, cfg>>

\* Lines 344-375: the response filters, then the status line, the headers and
\* the CRLF; the task returns at the first of these writes that fails. Then
\* "written" is set to 1 for the loop that copies the body.
MitmRespond(c) ==
    /\ fault = "none"
    /\ pc[c] = "mitm_write"
    /\ \E failAt \in {0, 1, 2, 3} :
        LET n == IF failAt = 0 THEN 3 ELSE failAt - 1
        IN  /\ clientOut' = [clientOut EXCEPT ![c] = @ \o SubSeq(ResponseWrites, 1, n)]
            /\ pc' = [pc EXCEPT ![c] = IF failAt = 0 THEN "mitm_body" ELSE "done"]
    /\ mitm' = [mitm EXCEPT ![c].resp = "none", ![c].log = @ \o <<FilterResponse, RespWrite>>,
                            ![c].written = 1, ![c].bodyLeft = maxBody, ![c].copying = FALSE]
    /\ UNCHANGED <<confVars, proxyDials, signVars, calls, sess, allocs, fault, defaultTLSConfig,
                   chainVars, clientClosed, originOut, origin, dials, relay, cfg>>

\* The client closes its connection while the body of a response is copied.
ClientClose(c) ==
    /\ fault = "none"
    /\ pc[c] = "mitm_body"
    /\ ~mitm[c].clientGone
    /\ mitm' = [mitm EXCEPT ![c].clientGone = TRUE]
    /\ UNCHANGED <<confVars, proxyDials, signVars, calls, sess, allocs, fault, defaultTLSConfig,
                   pc, chainVars, ioVars, relay, cfg>>

\* MitmBody with a loop that takes the copy to a closed client for progress.
MitmBodyRetry(c) ==
    /\ fault = "none"
    /\ pc[c] = "mitm_body"
    /\ mitm[c].written > 0
    /\ \E k \in (IF mitm[c].clientGone THEN {0} ELSE 0..mitm[c].bodyLeft) :
        mitm' = [mitm EXCEPT ![c].written = IF mitm[c].clientGone THEN 1 ELSE k,
                             ![c].bodyLeft = @ - k, ![c].copying = TRUE]
    /\ clientOut' = [clientOut EXCEPT ![c] = IF mitm[c].copying THEN @ ELSE Append(@, Body)]
    /\ UNCHANGED <<confVars, proxyDials, signVars, calls, sess, allocs, fault, defaultTLSConfig,
                   pc, chainVars, clientClosed, originOut, origin, dials, relay, cfg>>

\* Lines 376-380, one turn of the loop: io.Copy(chunked, resp.Body) returns how
\* much it copied, k chunks, and its error is dropped. It copies what is left
\* of the body, or less when a read or a write fails; to a client that has
\* closed it copies nothing.
MitmBody(c) ==
    /\ fault = "none"
    /\ pc[c] = "mitm_body"
    /\ mitm[c].written > 0
    /\ \E k \in (IF mitm[c].clientGone THEN {0} ELSE 0..mitm[c].bodyLeft) :
        mitm' = [mitm EXCEPT ![c].written = k, ![c].bodyLeft = @ - k, ![c].copying = TRUE]
    /\ clientOut' = [clientOut EXCEPT ![c] = IF mitm[c].copying THEN @ ELSE Append(@, Body)]
    /\ UNCHANGED <<confVars, proxyDials, signVars, calls, sess, allocs, fault, defaultTLSConfig,
                   pc, chainVars, clientClosed, originOut, origin, dials, relay, cfg>>

\* Lines 381-389: the loop has ended; the last chunk and the CRLF are written,
\* the task returns at the first of the two writes that fails, else the
\* request loop goes on.
MitmTrailer(c) ==
    /\ fault = "none"
    /\ pc[c] = "mitm_body"
    /\ mitm[c].written = 0
    /\ \E failAt \in {0, 5, 6} :
        /\ clientOut' = [clientOut EXCEPT ![c] =
                IF failAt = 5 THEN @ ELSE IF failAt = 6 THEN Append(@, LastChunk)
                ELSE @ \o <<LastChunk, CRLF>>]
        /\ pc' = [pc EXCEPT ![c] = IF failAt = 0 THEN "mitm_loop" ELSE "done"]
    /\ UNCHANGED <<confVars, proxyDials, signVars, calls, sess, allocs, fault, defaultTLSConfig,
                   chainVars, clientClosed, originOut, origin, dials, relay, cfg, mitm>>

\* http.ReadRequest on the connection of a client that has closed.
MitmReadEof(c) == mitm[c].clientGone /\ MitmRead(c)

\* ------------------------------------------------------------------ HTTP MITM
Response == "response"

\* case ConnectHTTPMitm up to the loop.
HTTPMitm(c) ==
    /\ fault = "none"
    /\ pc[c] = "switch"
    /\ todo[c].Action = ConnectHTTPMitm
    /\ clientOut' = [clientOut EXCEPT ![c] = Append(@, Ok10)]
    /\ dials' = [dials EXCEPT ![c] = @ + 1]
    /\ \/ /\ pc' = [pc EXCEPT ![c] = "done"]
          /\ UNCHANGED origin
       \/ /\ origin' = [origin EXCEPT ![c] = Append(@, "open")]
          /\ pc' = [pc EXCEPT ![c] = "hmitm_loop"]
    /\ UNCHANGED <<confVars, proxyDials, signVars, calls, sess, allocs, fault, defaultTLSConfig,
                   chainVars, clientClosed, originOut, relay, cfg, mitm>>

\* http.ReadRequest and the request filters.
HttpMitmRead(c) ==
    /\ fault = "none"
    /\ pc[c] = "hmitm_loop"
    /\ \/ /\ pc' = [pc EXCEPT ![c] = "done"]
          /\ UNCHANGED mitm
       \/ /\ mitm[c].nReq < maxReq
          /\ \E synth \in BOOLEAN :
               mitm' = [mitm EXCEPT ![c].nReq = @ + 1,
                                    ![c].resp = IF synth THEN "synth" ELSE "none",
                                    ![c].log = IF synth THEN <<FilterRequestResp>>
                                               ELSE <<FilterRequestNil>>]
          /\ pc' = [pc EXCEPT ![c] = "hmitm_serve"]
    /\ UNCHANGED <<confVars, proxyDials, signVars, calls, sess, allocs, fault, defaultTLSConfig,
                   chainVars, ioVars, relay, cfg>>

\* Lines 157-173: the request to the origin and its response, unless the
\* filters made one; then the response to the client.
HttpMitmServe(c) ==
    /\ fault = "none"
    /\ pc[c] = "hmitm_serve"
    /\ \E fail \in {"none", "req.Write", "ReadResponse", "resp.Write"} :
        LET sent == mitm[c].resp = "none" /\ fail # "req.Write"
        IN  /\ mitm[c].resp = "synth" => fail \in {"none", "resp.Write"}
            /\ originOut' = [originOut EXCEPT ![c] = IF sent THEN Append(@, Request) ELSE @]
            /\ mitm' = [mitm EXCEPT ![c].resp = "none", ![c].trips = IF sent THEN @ + 1 ELSE @,
                  ![c].log = @ \o (IF mitm[c].resp = "none" THEN <<ReqWrite>> ELSE <<>>)
                               \o (IF sent THEN <<ReadResponse>> ELSE <<>>)
                               \o (IF fail \in {"none", "resp.Write"}
                                   THEN <<FilterResponse, RespWrite>> ELSE <<>>)]
            /\ IF fail = "none"
               THEN /\ clientOut' = [clientOut EXCEPT ![c] = Append(@, Response)]
                    /\ pc' = [pc EXCEPT ![c] = "hmitm_loop"]
                    /\ UNCHANGED clientClosed
               ELSE /\ httpError(c)
                    /\ pc' = [pc EXCEPT ![c] = "done"]
    /\ UNCHANGED <<confVars, proxyDials, signVars, calls, sess, allocs, fault, defaultTLSConfig,
                   chainVars, origin, dials, relay, cfg>>

Next ==
    \E c \in Conns :
        \/ Connect(c)
        \/ HandleConnect(c)
        \/ HandlersDone(c)
        \/ Accept(c)
        \/ Reject(c)
        \/ Hijack(c)
        \/ Mitm(c)
        \/ FactoryLookup(c)
        \/ SignHostMint(c)
        \/ SignHostStore(c)
        \/ MitmDial(c)
        \/ MitmHandshake(c)
        \/ MitmRedial(c)
        \/ MitmAlpn(c)
        \/ MitmHttp2(c)
        \/ MitmRead(c)
        \/ MitmRoundTrip(c)
        \/ MitmRespond(c)
        \/ MitmBody(c)
        \/ MitmTrailer(c)
        \/ ClientClose(c)
        \/ HTTPMitm(c)
        \/ HttpMitmRead(c)
        \/ HttpMitmServe(c)
        \/ \E toClient \in BOOLEAN : CopyChunk(c, toClient)
        \/ \E toClient \in BOOLEAN : CopyEnd(c, toClient)
        \/ \E client \in BOOLEAN : PeerClose(c, client)
        \/ RelayClose(c)

Spec == Init /\ [][Next]_vars

\* A proxy with no handler, so that every CONNECT is accepted, serving one
\* client. A copier whose source has closed gets its EOF, and the task that
\* waits for the two copiers runs when they are done.
InitRelay ==
    /\ InitState
    /\ nHandlers = 0
    /\ alwaysMitm = FALSE
    /\ nClients = 1
    /\ hasH2Handler = FALSE
    /\ maxReq = 0
    /\ maxBody = 0
    /\ ca = [certValid |-> TRUE, keySupported |-> TRUE]

NextRelay ==
    \E c \in Conns :
        \/ Connect(c)
        \/ HandlersDone(c)
        \/ Accept(c)
        \/ \E toClient \in BOOLEAN : CopyChunk(c, toClient)
        \/ \E toClient \in BOOLEAN : CopyEnd(c, toClient)
        \/ \E client \in BOOLEAN : PeerClose(c, client)
        \/ RelayClose(c)

FairRelay ==
    \A c \in Conns :
        /\ WF_vars(CopyEof(c, TRUE))
        /\ WF_vars(CopyEof(c, FALSE))
        /\ WF_vars(RelayClose(c))

SpecRelay == InitRelay /\ [][NextRelay]_vars /\ FairRelay

\* A proxy whose only handler is AlwaysMitm, serving NConn clients at once.
InitMitm ==
    /\ InitState
    /\ nHandlers = 1
    /\ alwaysMitm = TRUE
    /\ nClients = NConn
    /\ hasH2Handler \in BOOLEAN
    /\ maxReq = MaxReqMitm
    /\ maxBody = 0
    /\ ca = [certValid |-> TRUE, keySupported |-> TRUE]

NextMitm ==
    \E c \in Conns :
        \/ Connect(c)
        \/ HandleConnect(c)
        \/ Mitm(c)
        \/ FactoryLookup(c)
        \/ SignHostMint(c)
        \/ SignHostStore(c)
        \/ MapFault(c)
        \/ MitmDial(c)
        \/ MitmHandshake(c)
        \/ MitmRedial(c)
        \/ MitmAlpn(c)
        \/ MitmHttp2(c)
        \/ MitmRead(c)
        \/ MitmRoundTrip(c)
        \/ MitmRespond(c)
        \/ MitmBody(c)
        \/ MitmTrailer(c)

SpecMitm == InitMitm /\ [][NextMitm]_vars

\* A proxy whose only handler is AlwaysMitm and that has no HTTP/2 handler,
\* serving one client. A copier whose source has closed gets its EOF, the
\* copy of a response body returns, and the task runs on after it.
InitSession ==
    /\ InitState
    /\ nHandlers = 1
    /\ alwaysMitm = TRUE
    /\ nClients = 1
    /\ hasH2Handler = FALSE
    /\ maxReq = MaxReq
    /\ maxBody = MaxBody
    /\ ca = [certValid |-> TRUE, keySupported |-> TRUE]

NextSession ==
    \E c \in Conns :
        \/ Connect(c)
        \/ HandleConnect(c)
        \/ Mitm(c)
        \/ FactoryLookup(c)
        \/ SignHostMint(c)
        \/ SignHostStore(c)
        \/ MitmDial(c)
        \/ MitmHandshake(c)
        \/ MitmRedial(c)
        \/ MitmAlpn(c)
        \/ MitmRead(c)
        \/ MitmRoundTrip(c)
        \/ MitmRespond(c)
        \/ MitmBody(c)
        \/ MitmTrailer(c)
        \/ ClientClose(c)
        \/ \E toClient \in BOOLEAN : CopyChunk(c, toClient)
        \/ \E toClient \in BOOLEAN : CopyEnd(c, toClient)
        \/ \E client \in BOOLEAN : PeerClose(c, client)

FairSession ==
    \A c \in Conns :
        /\ WF_vars(CopyEof(c, TRUE))
        /\ WF_vars(CopyEof(c, FALSE))
        /\ WF_vars(MitmBody(c))
        /\ WF_vars(MitmTrailer(c))
        /\ WF_vars(MitmReadEof(c))

SpecSession == InitSession /\ [][NextSession]_vars /\ FairSession

\* ------------------------------------------------------------------ claims
PastHandlers(c) == pc[c] \notin {"idle", "handlers"}

\* C1: the handlers are invoked in installation order, none after the first
\* that returns an action; when the loop has ended, todo and host are what that
\* handler returned, and the hosts of the abstaining handlers are gone; with
\* every handler abstaining (or none installed) todo is OkConnect, whose
\* Action is ConnectAccept, and host is the host of the CONNECT request.
C1_FirstActionWins ==
    \A c \in Conns :
        LET n == Len(invoked[c]) IN
        /\ \A i \in 1..n : invoked[c][i][1] = i
        /\ \A i \in 1..(n - 1) : invoked[c][i][2] = NilAction
        /\ pc[c] = "switch" =>
             IF n > 0 /\ invoked[c][n][2] # NilAction
             THEN todo[c] = invoked[c][n][2] /\ host[c] = invoked[c][n][3]
             ELSE /\ n = nHandlers
                  /\ todo[c] = OkConnect
                  /\ todo[c].Action = ConnectAccept
                  /\ host[c] = reqHost[c]

\* A second handler won after the first abstained with another host.
C1_Witness ==
    \E c \in Conns :
        /\ pc[c] = "switch"
        /\ Len(invoked[c]) = 2
        /\ invoked[c][2][2] # NilAction
        /\ invoked[c][1][3] # invoked[c][2][3]

\* C2: in Accept mode a failed dial leaves exactly the 500 on a closed client
\* connection, no 200 and no copier; a successful dial puts the 200 of HTTP/1.1
\* first on the client connection, once, with only relayed origin bytes after it.
C2_AcceptDial ==
    \A c \in Conns :
        (PastHandlers(c) /\ pc[c] # "switch" /\ todo[c].Action = ConnectAccept) =>
            IF origin[c] = <<>>
            THEN /\ clientOut[c] = <<ServerError>>
                 /\ clientClosed[c]
                 /\ relay[c].kind = "none"
                 /\ pc[c] = "done"
            ELSE /\ clientOut[c][1] = Ok11
                 /\ \A i \in 2..Len(clientOut[c]) : clientOut[c][i] = OriginBytes

\* The origin was dialed and bytes of it were relayed to the client.
C2_Witness ==
    \E c \in Conns :
        /\ todo[c].Action = ConnectAccept
        /\ origin[c] # <<>>
        /\ clientOut[c] = <<Ok11, OriginBytes>>

\* C3: when Reject has run, the client connection is closed, no origin was
\* dialed, and the client was written the prepared response of the context
\* and nothing else, or nothing when the context has none.
C3_Reject ==
    \A c \in Conns :
        (PastHandlers(c) /\ pc[c] # "switch" /\ todo[c].Action = ConnectReject) =>
            /\ pc[c] = "done"
            /\ clientClosed[c]
            /\ dials[c] = 0
            /\ origin[c] = <<>>
            /\ clientOut[c] = IF ctxResp[c] THEN <<PreparedResp>> ELSE <<>>

\* A CONNECT was rejected with no prepared response.
C3_Witness ==
    \E c \in Conns :
        /\ pc[c] = "done"
        /\ todo[c].Action = ConnectReject
        /\ ~ctxResp[c]
        /\ clientClosed[c]

\* C4: every context gets a positive session ID, and a context created later
\* gets a larger one, so no two contexts share an ID.
C4_SessionsIncrease ==
    /\ \A i \in 1..Len(allocs) : allocs[i][3] > 0
    /\ \A i \in 1..Len(allocs), j \in 1..Len(allocs) : i < j => allocs[i][3] < allocs[j][3]

\* Two MITM sessions allocated in turn: CONNECT 1, CONNECT 2, a request of
\* session 1, a request of session 2.
C4_Witness ==
    /\ Len(allocs) = 4
    /\ allocs[1][1] = 1 /\ allocs[2][1] = 2 /\ allocs[3][1] = 1 /\ allocs[4][1] = 2
    /\ allocs[3][2] = "inner" /\ allocs[4][2] = "inner"

InProgress(c) == pc[c] \notin {"idle", "done", "h2_handled"}

ConnectIds(S) == {allocs[i][3] : i \in {k \in 1..Len(allocs) : allocs[k][2] = "connect" /\ allocs[k][1] \in S}}

Contiguous(ids) == \A x \in ids, y \in ids : \A z \in x..y : z \in ids

\* C5 as claimed: the session IDs of the CONNECTs in progress at the same time
\* form a contiguous range of positive integers.
C5_ConnectIdsContiguous ==
    LET S == {c \in Conns : InProgress(c)}
    IN  /\ Contiguous(ConnectIds(S))
        /\ \A x \in ConnectIds(S) : x > 0

\* C5 as amended: the session IDs of all the contexts created so far, those of
\* the CONNECTs and those of the requests inside MITM sessions together, are
\* the range 1..n, each used once.
C5_AllIdsContiguous ==
    /\ {allocs[i][3] : i \in 1..Len(allocs)} = 1..Len(allocs)
    /\ \A i \in 1..Len(allocs), j \in 1..Len(allocs) : allocs[i][3] = allocs[j][3] => i = j

\* A request of session 1 took its ID between the two CONNECTs, both in progress.
C5_Witness ==
    /\ Len(allocs) >= 3
    /\ allocs[1] = <<1, "connect", 1>>
    /\ allocs[2] = <<1, "inner", 2>>
    /\ allocs[3] = <<2, "connect", 3>>
    /\ InProgress(1) /\ InProgress(2)

\* C6 as claimed: when the TLS-MITM task has ended after dialTls returned an
\* origin connection, and not in the HTTP/2 handler, the client connection and
\* every origin connection of the task are closed.
C6_MitmEndsClosed ==
    \A c \in Conns :
        (pc[c] = "done" /\ todo[c].Action = ConnectMitm /\ mitm[c].remote # "nil") =>
            /\ clientClosed[c]
            /\ \A i \in 1..Len(origin[c]) : origin[c][i] = "closed"

Generating(h) == {c \in Conns : pc[c] = "sign_mint" /\ mitm[c].hosts = <<h>>}

MintsOf(h) == {i \in 1..Len(mints) : mints[i] = <<h>>}

\* C7 as claimed: for every hostname at most one generation is in progress, its
\* leaf is generated at most once, and the process does not die of an
\* unsynchronized access to hostMap.
C7_SingleFlight ==
    /\ \A h \in SignNames :
        /\ Cardinality(Generating(h)) <= 1
        /\ Cardinality(MintsOf(h)) <= 1
    /\ fault # FatalMapAccess

Covers(cert, hosts) ==
    \A h \in Range(hosts) :
        IF ParseIP(h) THEN h \in Range(cert.IPAddresses) ELSE h \in Range(cert.DNSNames)

\* C8 as claimed: every call of signHost with a non-empty list that returned
\* without error returned a certificate with every DNS name of the list in
\* DNSNames and every IP literal of it in IPAddresses.
C8_CertCoversHosts ==
    \A i \in 1..Len(calls) :
        (calls[i].hosts # <<>> /\ ~calls[i].err) => Covers(calls[i].cert, calls[i].hosts)

\* C9 as claimed, for the non-empty lists (the empty list is the case of C10):
\* two calls of signHost with equal lists that returned a certificate returned
\* the same one.
C9_SameListSameLeaf ==
    \A i \in 1..Len(calls), j \in 1..Len(calls) :
        (calls[i].hosts = calls[j].hosts /\ calls[i].hosts # <<>>
            /\ ~calls[i].err /\ ~calls[j].err) =>
            calls[i].cert = calls[j].cert

\* C10 as claimed, for a CA signHost can sign with: a call of signHost with the
\* empty list returns the zero certificate and no error, generates nothing and
\* stores nothing.
C10_EmptyListZero ==
    \A i \in 1..Len(calls) :
        (calls[i].hosts = <<>> /\ ~MintFails) =>
            /\ calls[i].cert = ZeroCert
            /\ ~calls[i].err
            /\ ~calls[i].minted
            /\ ~calls[i].stored

Positions(l, E) == {i \in 1..Len(l) : l[i] \in E}

OriginEvents == {ReqWrite, ReadResponse, CtxRoundTrip, FallbackRoundTrip}

RoundTrips == {ReadResponse, CtxRoundTrip, FallbackRoundTrip}

InMitmLoop(c) == pc[c] \in {"mitm_loop", "mitm_rt", "mitm_write", "hmitm_loop", "hmitm_serve"}

\* C11: in the loop of MitmHTTP and in the loop of TLS-MITM, a request the
\* request filters answered gets no write to the origin and no round trip, and
\* when it has been served the filters' response went through the response
\* filters and to the client; a request the filters did not answer had exactly
\* one round trip before the response filters ran, and one at most in all.
C11_FilterOrRoundTrip ==
    \A c \in Conns :
        LET l == mitm[c].log IN
        (todo[c].Action \in {ConnectMitm, ConnectHTTPMitm} /\ l # <<>>) =>
            /\ l[1] = FilterRequestResp =>
                  /\ Positions(l, OriginEvents) = {}
                  /\ pc[c] \in {"mitm_loop", "hmitm_loop"} =>
                        l = <<FilterRequestResp, FilterResponse, RespWrite>>
            /\ l[1] = FilterRequestNil =>
                  /\ Cardinality(Positions(l, RoundTrips)) <= 1
                  /\ \A i \in Positions(l, {FilterResponse}) :
                        Cardinality({j \in Positions(l, RoundTrips) : j < i}) = 1
            /\ todo[c].Action = ConnectHTTPMitm => Len(originOut[c]) = mitm[c].trips

\* A TLS-MITM session served a request from the filters and then one from the
\* origin.
C11_Witness ==
    \E c \in Conns :
        /\ todo[c].Action = ConnectMitm
        /\ pc[c] = "mitm_loop"
        /\ mitm[c].nReq = 2
        /\ mitm[c].trips = 1
        /\ mitm[c].log = <<FilterRequestNil, CtxRoundTrip, FilterResponse, RespWrite>>

\* C12 as claimed, for a client that completes a TLS handshake with the proxy
\* (the placeholder one after a failed first dial, or the one of the session
\* before a failed redial): when dialTls returned no origin, the 500 is the
\* last thing written to the client through TLS, the client connection is
\* closed, and the task has ended without reading a request.
C12_CantDialServes500 ==
    \A c \in Conns :
        (mitm[c].placeholder # "none"
            /\ (mitm[c].placeholder = "ok" \/ mitm[c].clientTls = "ok")) =>
            /\ clientOut[c] # <<>>
            /\ clientOut[c][Len(clientOut[c])] = ServerError
            /\ clientClosed[c]
            /\ pc[c] = "done"
            /\ mitm[c].nReq = 0

\* C13 as claimed: in a TLS-MITM session whose client negotiated h2, the task
\* that ended in the HTTP/2 handler read no request; a session that went on to
\* the request loop has the fallback round-tripper, with MinVersion TLS 1.2 and
\* InsecureSkipVerify in its config, and none of its round trips is made by
\* the round-tripper of the context.
C13_H2Fallback ==
    \A c \in Conns :
        (todo[c].Action = ConnectMitm /\ mitm[c].clientProto = "h2") =>
            /\ pc[c] = "h2_handled" => mitm[c].nReq = 0
            /\ pc[c] \in {"mitm_loop", "mitm_rt", "mitm_write"} =>
                  /\ mitm[c].roundTripper = "hellorandomizednoalpn_maxtls"
                  /\ Config(c).MinVersion = VersionTLS12
                  /\ Config(c).InsecureSkipVerify
            /\ Positions(mitm[c].log, {CtxRoundTrip}) = {}

RECURSIVE Repeat(_, _)
Repeat(s, n) == IF n = 0 THEN <<>> ELSE s \o Repeat(s, n - 1)

\* C14: in a TLS-MITM session the request being served is the only one: while
\* request number n is with the filters, the round-tripper or the response
\* writer, the client has been written the 200 of the CONNECT and the n - 1
\* complete responses (status line, headers, CRLF, chunked body, last chunk,
\* CRLF) of the requests before it, in order; when the loop is back at reading,
\* all n responses are complete.
C14_OneRequestAtATime ==
    \A c \in Conns :
        todo[c].Action = ConnectMitm =>
            /\ pc[c] \in {"mitm_rt", "mitm_write"} =>
                  /\ mitm[c].nReq >= 1
                  /\ clientOut[c] = <<Ok10>> \o Repeat(ResponseWrites, mitm[c].nReq - 1)
                  /\ Cardinality(Positions(mitm[c].log, {FilterRequestResp, FilterRequestNil})) = 1
            /\ pc[c] = "mitm_loop" =>
                  clientOut[c] = <<Ok10>> \o Repeat(ResponseWrites, mitm[c].nReq)

\* The second request of a session is being answered after the first got its
\* complete response.
C14_Witness ==
    \E c \in Conns :
        /\ todo[c].Action = ConnectMitm
        /\ pc[c] = "mitm_write"
        /\ mitm[c].nReq = 2
        /\ clientOut[c] = <<Ok10>> \o ResponseWrites

\* C15 as claimed: the dial function returns a connection only when the proxy
\* answered 200, and for every other status it returns no connection and an
\* error whose text contains "proxy refused connection".
C15_RefusedUnless200 ==
    \A i \in 1..Len(proxyDials) :
        LET r == proxyDials[i] IN
        /\ r.conn => r.status = StatusOK
        /\ (r.status # 0 /\ r.status # StatusOK) =>
              /\ ~r.conn
              /\ Refused \in Range(r.err)

\* C15 as amended: a connection is returned exactly when the proxy answered
\* 200; for every other status no connection is returned and the error is
\* "proxy refused connection" followed by the body that was read (its first
\* 500 bytes with an https proxy) on a connection that was closed, or, when
\* reading the body failed, the error of that read.
C15_RefusedOrReadError ==
    \A i \in 1..Len(proxyDials) :
        LET r == proxyDials[i] IN
        /\ r.conn <=> r.status = StatusOK
        /\ r.conn => r.err = <<>>
        /\ (r.status # 0 /\ r.status # StatusOK) =>
              /\ ~r.conn
              /\ \/ /\ r.err[1] = Refused
                    /\ r.closed
                    /\ \E body \in Bodies : Tail(r.err) = ReadBody(r.dialer, body)
                 \/ r.err = <<"read error">>

\* The proxy answered 407 with a body, and then 200.
C15_Witness ==
    /\ Len(proxyDials) = 2
    /\ proxyDials[1].status = 407
    /\ proxyDials[1].err = <<Refused, "denied">>
    /\ proxyDials[2].status = StatusOK
    /\ proxyDials[2].conn

HalfCloses(c) ==
    (IF relay[c].toClient = "end" THEN {"client.CloseWrite", "origin.CloseRead"} ELSE {})
    \cup (IF relay[c].toOrigin = "end" THEN {"origin.CloseWrite", "client.CloseRead"} ELSE {})

AllClosed(c) == clientClosed[c] /\ \A i \in 1..Len(origin[c]) : origin[c][i] = "closed"

\* C16: in the relay of two half-closable ends, the half-closes made are those
\* of the directions whose copy has ended, the write side of the destination
\* and the read side of the source of each, and no others; neither connection
\* is ever closed; and a direction whose copy has not ended still delivers the
\* bytes its source sends, whatever the other direction has done.
C16_HalfCloseOneDirection ==
    \A c \in Conns :
        relay[c].kind = "half" =>
            /\ relay[c].shut = HalfCloses(c)
            /\ ~clientClosed[c]
            /\ origin[c] = <<"open">>
            /\ pc[c] = "relay"
            /\ \A toClient \in BOOLEAN :
                 (/\ (IF toClient THEN relay[c].toClient ELSE relay[c].toOrigin) = "run"
                  /\ (IF toClient THEN relay[c].nToClient ELSE relay[c].nToOrigin) < MaxRelay
                  /\ ~relay[c].clientGone /\ ~relay[c].originGone)
                     => ENABLED CopyChunk(c, toClient)

\* The copy from the client has ended, and after it the copy from the origin
\* delivered a chunk to the client.
C16_Witness ==
    \E c \in Conns :
        /\ relay[c].kind = "half"
        /\ relay[c].toOrigin = "end"
        /\ relay[c].toClient = "run"
        /\ relay[c].shut = {"origin.CloseWrite", "client.CloseRead"}
        /\ relay[c].nToOrigin = 0
        /\ relay[c].nToClient = 1
        /\ clientOut[c] = <<Ok11, OriginBytes>>

\* C17: in the relay with an end that is not half-closable, a connection is
\* closed only when both copiers have completed, the relay makes no
\* half-close, and once both have completed both connections get closed.
C17_FullCloseAfterBoth ==
    /\ [](\A c \in Conns :
            relay[c].kind = "full" =>
                /\ (clientClosed[c] \/ "closed" \in Range(origin[c])) =>
                      (relay[c].toClient = "end" /\ relay[c].toOrigin = "end" /\ AllClosed(c))
                /\ relay[c].shut = {}
                /\ relay[c].wg = Cardinality({d \in {relay[c].toClient} : d = "run"})
                                  + Cardinality({d \in {relay[c].toOrigin} : d = "run"}))
    /\ \A c \in Conns :
          (relay[c].kind = "full" /\ relay[c].toClient = "end" /\ relay[c].toOrigin = "end")
              ~> (relay[c].kind = "full" /\ AllClosed(c) /\ pc[c] = "done")

\* Both copiers of a full relay completed and both connections are closed.
C17_Witness ==
    \E c \in Conns :
        /\ relay[c].kind = "full"
        /\ relay[c].toClient = "end" /\ relay[c].toOrigin = "end"
        /\ relay[c].nToClient = 1
        /\ AllClosed(c)

\* C18 as claimed: in the Accept relay, once an endpoint has closed its
\* connection, both copiers eventually terminate.
C18_CopiersTerminate ==
    \A c \in Conns :
        (relay[c].kind \in {"half", "full"} /\ (relay[c].clientGone \/ relay[c].originGone))
            ~> (relay[c].toClient = "end" /\ relay[c].toOrigin = "end")

\* C19 as claimed: a TLS-MITM session that has reached the HTTP/2 handler or
\* the request loop has the same ALPN protocol on the client connection and on
\* the origin connection in use, and a session that dialed twice closed its
\* first origin connection.
C19_AlpnMatches ==
    \A c \in Conns :
        (todo[c].Action = ConnectMitm
            /\ pc[c] \in {"mitm_h2", "h2_handled", "mitm_loop", "mitm_rt", "mitm_write", "tunnel"}) =>
            /\ mitm[c].clientProto = mitm[c].remoteProto
            /\ dials[c] = 2 => origin[c][1] = "closed"

\* C20 as claimed: the process-wide default TLS config keeps the value it had
\* at startup.
C20_DefaultConfigReadOnly == defaultTLSConfig = ZeroConfig

InnerContexts(c) == {i \in 1..Len(allocs) : allocs[i][1] = c /\ allocs[i][2] = "inner"}

\* C21: no request whose method contains RDG is a WebSocket request, and when
\* the request read in the TLS-MITM loop has such a method, it was written to
\* the origin, no filter ran and no context was made for it, the two raw
\* copies were started, and the task is copying or has ended: it reads no
\* other request.
C21_RdgBypass ==
    /\ \A r \in Requests : ContainsRDG(r.Method) => ~isWebSocketRequest(r)
    /\ \A c \in Conns :
        /\ relay[c].kind = "ws" => ~ContainsRDG(mitm[c].method)
        /\ ContainsRDG(mitm[c].method) =>
              /\ relay[c].kind = "rdg"
              /\ relay[c].toClient # "off" /\ relay[c].toOrigin # "off"
              /\ mitm[c].log = <<ReqWrite>>
              /\ originOut[c] # <<>> /\ originOut[c][1] = Request
              /\ Cardinality(InnerContexts(c)) = mitm[c].nReq - 1
              /\ pc[c] \in {"tunnel", "done"}

\* The second request of a session was an RDG one, and bytes went both ways
\* after it.
C21_Witness ==
    \E c \in Conns :
        /\ ContainsRDG(mitm[c].method)
        /\ mitm[c].nReq = 2
        /\ pc[c] = "tunnel"
        /\ relay[c].nToClient = 1
        /\ originOut[c] = <<Request, ClientBytes>>

\* C22 as claimed: a WebSocket upgrade read in the TLS-MITM loop was written to
\* the origin and both copies were started; and once an endpoint has closed,
\* the task eventually exits with both copies stopped.
C22_WebSocketTunnelEnds ==
    /\ [](\A c \in Conns :
            relay[c].kind = "ws" =>
                /\ originOut[c] # <<>> /\ originOut[c][1] = Request
                /\ relay[c].toClient # "off" /\ relay[c].toOrigin # "off")
    /\ \A c \in Conns :
          (relay[c].kind = "ws" /\ (relay[c].clientGone \/ relay[c].originGone))
              ~> (pc[c] = "done" /\ relay[c].toClient = "end" /\ relay[c].toOrigin = "end")

====
